---- MODULE Spec2Model ----
(***************************************************************************)
(* A model of scripts/python/fetch_stations.py: the ODPT station fetcher.  *)
(*                                                                         *)
(* Text is a sequence of one-character strings (an identifier or a key may *)
(* also hold opaque multi-character tokens that no operation looks into).  *)
(* A JSON value is [t |-> "null" | "num" | "str", v |-> text]; Python's    *)
(* None is the JSON null.  A JSON object (a Python dict) is a function     *)
(* from field names to JSON values.                                        *)
(***************************************************************************)
EXTENDS Integers, Sequences, FiniteSets, TLC

\* ------------------------------------------------------------------ bounds
MaxDepth == 6      \* directories on the path from the script's directory to the root
MaxOps == 2        \* lines of operators.txt
MaxRailways == 2   \* railway records the API returns over one run
MaxStations == 2   \* station records the API returns over one run
MaxGeoTail == 1    \* stations that follow the first one in a serializer input

\* --------------------------------------------------------------- constants
MAX_PARENT_DIRS == 5

\* ------------------------------------------------------------- JSON values
JNull == [t |-> "null", v |-> <<>>]
JNum(digits) == [t |-> "num", v |-> digits]
JStr(text) == [t |-> "str", v |-> text]

\* dict.get(k): the value, or None
Get(d, k) == IF k \in DOMAIN d THEN d[k] ELSE JNull

\* dict.get(k, default)
GetDefault(d, k, default) == IF k \in DOMAIN d THEN d[k] ELSE default

\* Python truthiness of a JSON value ("not x" is its negation)
Truthy(x) ==
    CASE x.t = "null" -> FALSE
      [] x.t = "str" -> x.v # <<>>
      [] x.t = "num" -> \E i \in 1..Len(x.v) : x.v[i] # "0"

\* Code points of the characters identifiers are made of
Ord(c) ==
    CASE c = "0" -> 48 [] c = "1" -> 49 [] c = "2" -> 50 [] c = "3" -> 51
      [] c = "a" -> 97 [] c = "b" -> 98 [] c = "c" -> 99
      [] OTHER -> 120

\* Python's str < str : lexicographic by code point
RECURSIVE StrLess(_, _)
StrLess(s, u) ==
    IF u = <<>> THEN FALSE
    ELSE IF s = <<>> THEN TRUE
    ELSE IF Ord(Head(s)) # Ord(Head(u)) THEN Ord(Head(s)) < Ord(Head(u))
    ELSE StrLess(Tail(s), Tail(u))

\* sub in text
Contains(text, sub) ==
    \E i \in 0..(Len(text) - Len(sub)) :
        \A j \in 1..Len(sub) : text[i + j] = sub[j]

\* ----------------------------------------------------------- key resolution
\* What a directory holds under the name defaults.json
ConfigFiles ==
    { [kind |-> "absent", value |-> <<>>],
      [kind |-> "invalid", value |-> <<>>],         \* unreadable, or not JSON
      [kind |-> "nokey", value |-> <<>>],           \* an object without ODPT_API_KEY
      [kind |-> "key", value |-> <<>>],             \* "ODPT_API_KEY": ""
      [kind |-> "key", value |-> <<"k", "1">>],
      [kind |-> "key", value |-> <<"k", "2">>] }

\* Path.parent: the root is its own parent
Parent(tree, d) == IF d < Len(tree) THEN d + 1 ELSE d

RECURSIVE SearchUp(_, _, _)
SearchUp(tree, current_dir, n) ==
    IF n = 0 THEN 0
    ELSE IF tree[current_dir].kind # "absent" THEN current_dir
    ELSE SearchUp(tree, Parent(tree, current_dir), n - 1)

find_config_file_unbounded(tree) == SearchUp(tree, 1, Len(tree))

\* The directory whose defaults.json is used, 0 for None
find_config_file(tree) == SearchUp(tree, 1, MAX_PARENT_DIRS)

\* The key read from the configuration, <<>> for None
read_api_key_from_config(tree) ==
    LET config_path == find_config_file(tree)
    IN  IF config_path = 0 THEN <<>>
        ELSE IF tree[config_path].kind = "key" THEN tree[config_path].value
        ELSE <<>>

\* main, lines 233-236
ResolvedKey(cli, tree) ==
    IF cli # <<>> THEN cli ELSE read_api_key_from_config(tree)

\* ---------------------------------------------------------------- API client
REDACTED == <<"<API_KEY_REDACTED>">>

\* quote_plus, character by character: a space becomes "+", a "+" is escaped,
\* every other character of the model's alphabet is safe
RECURSIVE quote_plus(_)
quote_plus(text) ==
    IF text = <<>> THEN <<>>
    ELSE (CASE Head(text) = " " -> <<"+">>
            [] Head(text) = "+" -> <<"%", "2", "B">>
            [] OTHER -> <<Head(text)>>) \o quote_plus(Tail(text))

\* urlencode of the query parameters, a sequence of <<name, value>>
RECURSIVE urlencode(_)
urlencode(query_params) ==
    IF query_params = <<>> THEN <<>>
    ELSE quote_plus(Head(query_params)[1]) \o <<"=">> \o quote_plus(Head(query_params)[2])
         \o (IF Len(query_params) > 1 THEN <<"&">> ELSE <<>>)
         \o urlencode(Tail(query_params))

\* str.replace(old, new): every non-overlapping occurrence, left to right
RECURSIVE Replace(_, _, _)
Replace(text, old, new) ==
    IF old = <<>> \/ Len(text) < Len(old) THEN text
    ELSE IF SubSeq(text, 1, Len(old)) = old
         THEN new \o Replace(SubSeq(text, Len(old) + 1, Len(text)), old, new)
         ELSE <<Head(text)>> \o Replace(Tail(text), old, new)

\* The URL _make_request builds (line 58-62)
RequestUrl(key, req) ==
    <<"https://api/", req.endpoint, "?">>
    \o urlencode(<<<<<<"acl:consumerKey">>, key>>>> \o req.params)

\* What a request can end in: a parsed response, or an exception
Failures == {"HTTPError", "URLError", "timeout", "ValueError"}

\* The lines _make_request writes to stderr before the request is sent (line 63)
RequestLog(key, req) ==
    << <<"Requesting URL:", " ">> \o RequestUrl(key, req) >>

\* The lines _make_request writes to stderr in its except clauses (line 70-78)
FailureLog(key, req, failure) ==
    LET url == RequestUrl(key, req)
        safe_url == Replace(url, key, REDACTED)
    IN  CASE failure = "HTTPError" ->
                << <<"HTTP Error">>, <<"URL:", " ">> \o safe_url >>
          [] failure = "URLError" -> << <<"URL Error">> >>
          [] OTHER -> <<>>

\* fetch_railways(operator_id), fetch_stations(railway_id): the request made
RailwayRequest(operator_id) ==
    [endpoint |-> "odpt:Railway",
     params |-> IF operator_id # <<>> THEN << <<<<"odpt:operator">>, operator_id>> >> ELSE <<>>]

StationRequest(railway_id) ==
    [endpoint |-> "odpt:Station",
     params |-> IF Truthy(railway_id) THEN << <<<<"odpt:railway">>, railway_id.v>> >> ELSE <<>>]

\* ------------------------------------------------------------ operator source
Whitespace == {" ", "\n"}

RECURSIVE LStrip(_)
LStrip(line) ==
    IF line # <<>> /\ Head(line) \in Whitespace THEN LStrip(Tail(line)) ELSE line

RECURSIVE RStrip(_)
RStrip(line) ==
    IF line # <<>> /\ line[Len(line)] \in Whitespace
    THEN RStrip(SubSeq(line, 1, Len(line) - 1)) ELSE line

Strip(line) == RStrip(LStrip(line))

\* The loop of read_operators_file (line 189-193)
RECURSIVE ParseLines(_)
ParseLines(lines) ==
    IF lines = <<>> THEN <<>>
    ELSE LET line == Strip(Head(lines))
         IN  IF line = <<>> \/ Head(line) = "#" THEN ParseLines(Tail(lines))
             ELSE <<line>> \o ParseLines(Tail(lines))

\* read_operators_file: no file, or one that cannot be opened, gives []
read_operators_file(file) ==
    IF file.state # "readable" THEN <<>> ELSE ParseLines(file.lines)

\* ----------------------------------------------------------------- aggregator
BackfillAlways(station, railway_id) ==
    [k \in DOMAIN station \cup {"odpt:railway"} |->
        IF k = "odpt:railway" THEN railway_id ELSE station[k]]

\* Line 281-283: the railway reference is set only when the field is absent
Backfill(station, railway_id) ==
    IF "odpt:railway" \in DOMAIN station THEN station
    ELSE station @@ ("odpt:railway" :> railway_id)

BackfillAll(stations, railway_id) ==
    [i \in 1..Len(stations) |-> Backfill(stations[i], railway_id)]

\* ---------------------------------------------------------- deduplicator/sorter
\* unique_stations[station_id] = station on an insertion-ordered dict, kept as a
\* sequence of [key, value]: an existing key keeps its place and takes the new value
UpsertKeepFirst(dict, key, value) ==
    IF \E i \in 1..Len(dict) : dict[i].key = key THEN dict
    ELSE Append(dict, [key |-> key, value |-> value])

Upsert(dict, key, value) ==
    IF \E i \in 1..Len(dict) : dict[i].key = key
    THEN [i \in 1..Len(dict) |->
            IF dict[i].key = key THEN [key |-> key, value |-> value] ELSE dict[i]]
    ELSE Append(dict, [key |-> key, value |-> value])

\* Line 288-292
RECURSIVE Deduplicate(_, _)
Deduplicate(stations, unique_stations) ==
    IF stations = <<>> THEN unique_stations
    ELSE LET station == Head(stations)
             station_id == Get(station, "owl:sameAs")
         IN  Deduplicate(Tail(stations),
                         IF Truthy(station_id)
                         THEN Upsert(unique_stations, station_id, station)
                         ELSE unique_stations)

\* list(unique_stations.values())
Values(dict) == [i \in 1..Len(dict) |-> dict[i].value]

\* The sort key of line 297
SortKey(station) == GetDefault(station, "owl:sameAs", JStr(<<>>))

\* list.sort is stable: an element goes after the elements that do not exceed it
RECURSIVE InsertSorted(_, _)
InsertSorted(sorted, station) ==
    IF sorted = <<>> THEN <<station>>
    ELSE IF StrLess(SortKey(station).v, SortKey(Head(sorted)).v)
         THEN <<station>> \o sorted
         ELSE <<Head(sorted)>> \o InsertSorted(Tail(sorted), station)

RECURSIVE SortStations(_, _)
SortStations(stations, sorted) ==
    IF stations = <<>> THEN sorted
    ELSE SortStations(Tail(stations), InsertSorted(sorted, Head(stations)))

UniqueUnsorted(stations) == Values(Deduplicate(stations, <<>>))

\* Line 287-297: stations_list is built once (line 294) and then sorted
UniqueSorted(stations) ==
    CHOOSE sorted \in { SortStations(stations_list, <<>>) :
                           stations_list \in {Values(Deduplicate(stations, <<>>))} } : TRUE

\* ------------------------------------------------------------------ serializer
LatAliases == <<"geo:lat", "lat", "latitude">>
LonAliases == <<"geo:long", "long", "lon", "longitude">>

\* Line 325-332: the value under the first alias the station has, None without one
RECURSIVE FirstAlias(_, _)
FirstAlias(station, aliases) ==
    IF aliases = <<>> THEN JNull
    ELSE IF Head(aliases) \in DOMAIN station THEN station[Head(aliases)]
    ELSE FirstAlias(station, Tail(aliases))

Digits == {"0", "1", "2", "3", "4", "5", "6", "7", "8", "9"}

\* An integer of 401 digits: json.loads reads it as an int of any size
Zeros400 == "0(400 times)"
Huge == JNum(<<"1", Zeros400>>)

\* float(x): "ok" on a number and on a string that spells one, ValueError on
\* another string, TypeError on None, OverflowError on an int beyond a float
Float(x) ==
    CASE x.t = "num" ->
            IF \E i \in 1..Len(x.v) : x.v[i] = Zeros400 THEN "OverflowError" ELSE "ok"
      [] x.t = "str" ->
            IF x.v # <<>> /\ \A i \in 1..Len(x.v) : x.v[i] \in Digits
            THEN "ok" ELSE "ValueError"
      [] OTHER -> "TypeError"

NoGeometry == [type |-> "none", coordinates |-> <<>>]

\* An exception the except clause of line 345 does not name
Uncaught == [type |-> "OverflowError", coordinates |-> <<>>]

\* What "except (ValueError, TypeError)" makes of a failed float()
Caught(error) == IF error \in {"ValueError", "TypeError"} THEN NoGeometry ELSE Uncaught

\* Line 334-346: float(lat) is evaluated first, float(lon) only when it succeeded
Geometry(station) ==
    LET lat == FirstAlias(station, LatAliases)
        lon == FirstAlias(station, LonAliases)
    IN  IF lat # JNull /\ lon # JNull
        THEN IF Float(lat) # "ok" THEN Caught(Float(lat))
             ELSE IF Float(lon) # "ok" THEN Caught(Float(lon))
             ELSE [type |-> "Point", coordinates |-> <<lon.v, lat.v>>]
        ELSE NoGeometry

\* Line 315-320
Properties(station) ==
    [k \in {"owl:sameAs", "odpt:stationTitle", "odpt:operator", "odpt:railway"} |->
        Get(station, k)]

\* Line 311-358: the features, how many stations were skipped, and whether the
\* loop was left by an exception
RECURSIVE ToFeatures(_, _, _)
ToFeatures(stations, features, skipped) ==
    IF stations = <<>>
    THEN [features |-> features, skipped |-> skipped, raised |-> FALSE]
    ELSE LET geometry == Geometry(Head(stations))
         IN  IF geometry = Uncaught
             THEN [features |-> features, skipped |-> skipped, raised |-> TRUE]
             ELSE IF geometry = NoGeometry
             THEN ToFeatures(Tail(stations), features, skipped + 1)
             ELSE ToFeatures(Tail(stations),
                             Append(features, [type |-> "Feature",
                                               geometry |-> geometry,
                                               properties |-> Properties(Head(stations))]),
                             skipped)

\* str.lower on the characters a path is made of
Lower(path) ==
    [i \in 1..Len(path) |-> IF path[i] = ".GeoJSON" THEN ".geojson" ELSE path[i]]

\* Line 309
GeoJsonMode(args) ==
    args.geojson \/ (args.output # <<>> /\ Lower(args.output)[Len(args.output)] = ".geojson")

\* Line 360-363 and 373-380: the document that is serialized
Document(args, ops, count, stations) ==
    IF GeoJsonMode(args)
    THEN [type |-> "FeatureCollection",
          features |-> ToFeatures(stations, <<>>, 0).features]
    ELSE [summary |-> [operators |-> Len(ops), railways |-> count,
                       stations |-> Len(stations)],
          stations |-> stations]

\* ------------------------------------------------------------------ the inputs
SeqsUpTo(S, n) == UNION { [1..k -> S] : k \in 0..n }

Key1 == <<"k", "1">>
Key2 == <<"k", "2">>

\* Command-line key and directory tree of a run
Setups ==
    { [cli |-> <<>>, tree |-> [d \in 1..MaxDepth |->
            IF d = 3 THEN [kind |-> "key", value |-> Key2]
            ELSE [kind |-> "absent", value |-> <<>>]]],
      [cli |-> <<>>, tree |-> [d \in 1..MaxDepth |-> [kind |-> "absent", value |-> <<>>]]] }

\* --geojson and --output of a run
ArgSets ==
    { [geojson |-> FALSE, output |-> <<>>],
      [geojson |-> FALSE, output |-> <<"out", ".json">>],
      [geojson |-> FALSE, output |-> <<"out", ".GeoJSON">>],
      [geojson |-> TRUE, output |-> <<>>] }

\* Lines of operators.txt
OperatorLines ==
    { <<" ", "OP-A", " ", "\n">>, <<"#", "OP-A", "\n">>, <<" ", "\n">> }

OperatorFiles ==
    { [state |-> "absent", lines |-> <<>>], [state |-> "unreadable", lines |-> <<>>] }
    \cup { [state |-> "readable", lines |-> l] : l \in SeqsUpTo(OperatorLines, MaxOps) }

Rw1 == JStr(<<"r", "1">>)
Rw2 == JStr(<<"r", "2">>)
Rw9 == JStr(<<"r", "9">>)

\* Railway records the API may return
RailwayPool ==
    { ("owl:sameAs" :> Rw1) @@ ("dc:title" :> JStr(<<"t">>)),
      ("owl:sameAs" :> Rw2),
      ("owl:sameAs" :> JStr(<<>>)) @@ ("dc:title" :> JStr(<<"t">>)) }

\* Station records the API may return
StationPool ==
    { ("owl:sameAs" :> JStr(<<"b">>)) @@ ("odpt:stationTitle" :> JStr(<<"x">>))
        @@ ("geo:lat" :> JNum(<<"3", "5">>)) @@ ("geo:long" :> JNum(<<"1", "3", "9">>)),
      ("owl:sameAs" :> JStr(<<"b">>)) @@ ("odpt:stationTitle" :> JStr(<<"y">>))
        @@ ("odpt:railway" :> Rw9),
      ("owl:sameAs" :> JStr(<<"a", "c">>))
        @@ ("lat" :> JStr(<<"3", "5">>)) @@ ("lon" :> Huge),
      ("owl:sameAs" :> JStr(<<>>)) @@ ("odpt:stationTitle" :> JStr(<<"x">>)),
      ("odpt:stationTitle" :> JStr(<<"x">>)) }

\* ------------------------------------------------------------------- the state
VARIABLES
    pc,              \* where main is
    cmdline,         \* what argparse makes of the command line
    exc,             \* the exception that ended the run, "none" without one
    exit_status,     \* the process's exit status, -1 while it runs
    cli_key,         \* args.api_key, <<>> when not given
    tree,            \* defaults.json in the script's directory and its ancestors
    api_key,
    operators, op_i,
    railways, rw_i,
    all_stations, railway_count,
    stations_list,
    skipped,         \* the serializer's count, -1 before GeoJSON conversion
    output,          \* the output artifact
    inflight,        \* requests sent and not yet answered
    stderr,          \* what _make_request wrote for its latest call
    \* history, read by the properties only
    opfile,          \* whether operators.txt could be read, and the operators it gave
    rw_seen,         \* every railway record returned, in order
    fetched,         \* every station record returned, with the railway the request named
    n_requests,      \* requests sent
    n_station_requests,
    failure,         \* how a request failed
    interrupted      \* where the user's interrupt arrived

vars == <<pc, cmdline, exc, exit_status, cli_key, tree, api_key, operators, op_i,
          railways, rw_i, all_stations, railway_count, stations_list, skipped, output,
          inflight, stderr, opfile, rw_seen, fetched, n_requests, n_station_requests,
          failure, interrupted>>

NoOutput == [target |-> "none", args |-> <<>>, complete |-> FALSE, doc |-> <<>>]

InitRest ==
    /\ exc = "none" /\ exit_status = -1
    /\ api_key = <<>>
    /\ operators = <<>> /\ op_i = 1
    /\ railways = <<>> /\ rw_i = 1
    /\ all_stations = <<>> /\ railway_count = 0
    /\ stations_list = <<>> /\ skipped = -1
    /\ output = NoOutput
    /\ inflight = {} /\ stderr = <<>>
    /\ opfile = [state |-> "unread", count |-> 0]
    /\ rw_seen = <<>> /\ fetched = <<>>
    /\ n_requests = 0 /\ n_station_requests = 0
    /\ failure = "none" /\ interrupted = "no"

Init ==
    /\ pc = "parse"
    /\ cmdline \in {"accepted", "help", "rejected"}
    /\ \E s \in Setups : cli_key = s.cli /\ tree = s.tree
    /\ InitRest

\* ------------------------------------------------------------------ the steps
ExitCodeAllOne(e) == 1

\* The status main's except clauses give an exception raised in the try block
\* (line 391-401); SystemExit is no Exception and leaves with its own code
ExitCode(e) ==
    CASE e = "HTTPError" -> 1
      [] e = "KeyboardInterrupt" -> 130
      [] e = "SystemExit" -> 1
      [] OTHER -> 1

\* An exception leaves the try block and the process exits: main's locals, and
\* the history of its aggregation, are gone
Raise(e) ==
    /\ exc' = e
    /\ exit_status' = ExitCode(e)
    /\ pc' = "exited"
    /\ inflight' = {}
    /\ operators' = <<>> /\ op_i' = 1
    /\ railways' = <<>> /\ rw_i' = 1
    /\ all_stations' = <<>> /\ railway_count' = 0
    /\ stations_list' = <<>>
    /\ rw_seen' = <<>> /\ fetched' = <<>>

\* The status argparse exits with: 0 after --help, 2 on a usage error
ArgparseExit(line) == IF line = "help" THEN 0 ELSE 2

\* Line 231: parse_args returns the arguments, or prints the help or a usage
\* error and ends the process by itself, before the try block
ParseArgs ==
    /\ pc = "parse"
    /\ IF cmdline = "accepted"
       THEN pc' = "args" /\ UNCHANGED exit_status
       ELSE pc' = "exited" /\ exit_status' = ArgparseExit(cmdline)
    /\ UNCHANGED <<cmdline, exc, cli_key, tree, api_key, operators, op_i, railways,
                   rw_i, all_stations, railway_count, stations_list, skipped, output,
                   inflight, stderr, opfile, rw_seen, fetched, n_requests,
                   n_station_requests, failure, interrupted>>

\* Line 233-244: the key is resolved; without one the run ends in sys.exit(1)
\* before the try block is entered
ResolveKey ==
    /\ pc = "args"
    /\ api_key' = ResolvedKey(cli_key, tree)
    /\ IF api_key' = <<>>
       THEN pc' = "exited" /\ exit_status' = 1
       ELSE pc' = "load" /\ UNCHANGED exit_status
    /\ UNCHANGED <<cmdline, exc, cli_key, tree, operators, op_i, railways, rw_i,
                   all_stations, railway_count, stations_list, skipped, output,
                   inflight, stderr, opfile, rw_seen, fetched, n_requests,
                   n_station_requests, failure, interrupted>>

NoOperatorsIgnored(ops) == FALSE

\* Line 249: "if not operators"
NoOperators(ops) == ops = <<>>

CountRailwaysWithId(count, response) ==
    count + Cardinality({i \in 1..Len(response) : Truthy(Get(response[i], "owl:sameAs"))})

\* Line 266
CountRailways(count, response) == count + Len(response)

\* Line 248-255: the operator list is loaded; an empty one ends in sys.exit(1),
\* a SystemExit that passes main's except clauses
LoadOperators ==
    /\ pc = "load"
    /\ \E file \in OperatorFiles :
        /\ opfile' = [state |-> file.state, count |-> Len(read_operators_file(file))]
        /\ IF NoOperators(read_operators_file(file))
           THEN Raise("SystemExit")
           ELSE /\ operators' = read_operators_file(file)
                /\ pc' = "operator"
                /\ op_i' = 1 /\ all_stations' = <<>> /\ railway_count' = 0
                /\ UNCHANGED <<exc, exit_status, inflight, railways, rw_i,
                               stations_list, rw_seen, fetched>>
    /\ UNCHANGED <<cmdline, cli_key, tree, api_key, skipped, output, stderr,
                   n_requests, n_station_requests, failure, interrupted>>

\* Line 258-265: the next operator's railways are requested
FetchRailways ==
    /\ pc = "operator" /\ op_i <= Len(operators)
    /\ IF operators[op_i] = <<>>
       THEN /\ op_i' = op_i + 1
            /\ UNCHANGED <<pc, inflight, stderr, n_requests>>
       ELSE LET req == RailwayRequest(operators[op_i])
            IN  /\ inflight' = inflight \cup {req}
                /\ stderr' = RequestLog(api_key, req)
                /\ n_requests' = n_requests + 1
                /\ pc' = "await_railways"
                /\ UNCHANGED op_i
    /\ UNCHANGED <<cmdline, exc, exit_status, cli_key, tree, api_key, operators, railways,
                   rw_i, all_stations, railway_count, stations_list, skipped, output,
                   opfile, rw_seen, fetched, n_station_requests, failure, interrupted>>

\* Line 65-69 and 266: the railways arrive and are counted
RailwaysArrive ==
    /\ pc = "await_railways"
    /\ \E response \in SeqsUpTo(RailwayPool, MaxRailways - Len(rw_seen)) :
        /\ railways' = response
        /\ railway_count' = CountRailways(railway_count, response)
        /\ rw_seen' = rw_seen \o response
    /\ inflight' = {}
    /\ rw_i' = 1
    /\ pc' = "railway"
    /\ UNCHANGED <<cmdline, exc, exit_status, cli_key, tree, api_key, operators, op_i,
                   all_stations, stations_list, skipped, output, stderr, opfile,
                   fetched, n_requests, n_station_requests, failure, interrupted>>

\* Line 269-277: the next railway's stations are requested; a railway without an
\* identifier is passed over
FetchStations ==
    /\ pc = "railway" /\ rw_i <= Len(railways)
    /\ LET railway_id == Get(railways[rw_i], "owl:sameAs")
       IN  IF ~Truthy(railway_id)
           THEN /\ rw_i' = rw_i + 1
                /\ UNCHANGED <<pc, inflight, stderr, n_requests, n_station_requests>>
           ELSE LET req == StationRequest(railway_id)
                IN  /\ inflight' = inflight \cup {req}
                    /\ stderr' = RequestLog(api_key, req)
                    /\ n_requests' = n_requests + 1
                    /\ n_station_requests' = n_station_requests + 1
                    /\ pc' = "await_stations"
                    /\ UNCHANGED rw_i
    /\ UNCHANGED <<cmdline, exc, exit_status, cli_key, tree, api_key, operators, op_i,
                   railways, all_stations, railway_count, stations_list, skipped,
                   output, opfile, rw_seen, fetched, failure, interrupted>>

\* Line 277-285: the stations arrive, are tagged with the railway and appended
StationsArrive ==
    /\ pc = "await_stations"
    /\ LET railway_id == Get(railways[rw_i], "owl:sameAs")
       IN  \E stations \in SeqsUpTo(StationPool, MaxStations - Len(fetched)),
              req \in inflight :
            /\ all_stations' = all_stations \o BackfillAll(stations, railway_id)
            /\ fetched' = fetched \o
                   [i \in 1..Len(stations) |->
                       [railway |-> req.params[1][2], station |-> stations[i]]]
    /\ inflight' = {}
    /\ rw_i' = rw_i + 1
    /\ pc' = "railway"
    /\ UNCHANGED <<cmdline, exc, exit_status, cli_key, tree, api_key, operators, op_i,
                   railways, railway_count, stations_list, skipped, output, stderr,
                   opfile, rw_seen, n_requests, n_station_requests, failure,
                   interrupted>>

RequestFailsRetry ==
    /\ pc \in {"await_railways", "await_stations"}
    /\ n_requests < 6
    /\ \E f \in Failures, req \in inflight :
        /\ failure' = f
        /\ stderr' = stderr \o FailureLog(api_key, req, f) \o RequestLog(api_key, req)
        /\ n_requests' = n_requests + 1
    /\ UNCHANGED <<pc, cmdline, exc, exit_status, cli_key, tree, api_key, operators, op_i,
                   railways, rw_i, all_stations, railway_count, stations_list, skipped,
                   output, inflight, opfile, rw_seen, fetched, n_station_requests,
                   interrupted>>

\* Line 70-78 and 391-401: the request in flight fails; _make_request writes its
\* diagnostics, the exception leaves the loops and main exits
RequestFails ==
    /\ pc \in {"await_railways", "await_stations"}
    /\ \E f \in Failures, req \in inflight :
        /\ failure' = f
        /\ stderr' = stderr \o FailureLog(api_key, req, f)
        /\ Raise(f)
    /\ UNCHANGED <<cmdline, cli_key, tree, api_key, skipped, output, opfile, n_requests,
                   n_station_requests, interrupted>>

\* Line 269: a railway response is exhausted, the operator loop goes on
NextOperator ==
    /\ pc = "railway" /\ rw_i > Len(railways)
    /\ op_i' = op_i + 1
    /\ pc' = "operator"
    /\ UNCHANGED <<cmdline, exc, exit_status, cli_key, tree, api_key, operators, railways,
                   rw_i, all_stations, railway_count, stations_list, skipped, output,
                   inflight, stderr, opfile, rw_seen, fetched, n_requests,
                   n_station_requests, failure, interrupted>>

\* Line 287-304: the stations are deduplicated and sorted
Aggregate ==
    /\ pc = "operator" /\ op_i > Len(operators)
    /\ stations_list' = UniqueSorted(all_stations)
    /\ pc' = "output"
    /\ UNCHANGED <<cmdline, exc, exit_status, cli_key, tree, api_key, operators, op_i,
                   railways, rw_i, all_stations, railway_count, skipped, output,
                   inflight, stderr, opfile, rw_seen, fetched, n_requests,
                   n_station_requests, failure, interrupted>>

\* Line 309-358: in GeoJSON mode a float() raises what line 345 does not catch
ConversionRaises(args, stations) ==
    GeoJsonMode(args) /\ ToFeatures(stations, <<>>, 0).raised

\* Line 337-338, 397-401: the conversion to GeoJSON ends in an OverflowError,
\* which main's "except Exception" turns into exit status 1
ConvertFails ==
    /\ pc = "output"
    /\ \E args \in ArgSets : ConversionRaises(args, stations_list)
    /\ Raise("OverflowError")
    /\ UNCHANGED <<cmdline, cli_key, tree, api_key, skipped, output, stderr, opfile,
                   n_requests, n_station_requests, failure, interrupted>>

\* Where the document goes
Target(args) == IF args.output = <<>> THEN "stdout" ELSE "file"

\* Line 306-389: the document is built and written, and main returns; args is
\* drawn here, where main first reads --geojson and --output
WriteOutput ==
    /\ pc = "output"
    /\ \E args \in ArgSets :
        /\ ~ConversionRaises(args, stations_list)
        /\ skipped' = IF GeoJsonMode(args)
                      THEN ToFeatures(stations_list, <<>>, 0).skipped ELSE skipped
        /\ output' = [target |-> Target(args), args |-> args, complete |-> TRUE,
                      doc |-> Document(args, operators, railway_count, stations_list)]
    /\ pc' = "exited" /\ exit_status' = 0
    /\ UNCHANGED <<cmdline, exc, cli_key, tree, api_key, operators, op_i, railways, rw_i,
                   all_stations, railway_count, stations_list, inflight, stderr,
                   opfile, rw_seen, fetched, n_requests, n_station_requests, failure,
                   interrupted>>

\* Line 365-367, 384-386, 397-401: the write fails with an OSError, before the
\* target is touched (open) or after it was truncated
WriteFails ==
    /\ pc = "output"
    /\ \E args \in ArgSets, touched \in BOOLEAN :
        /\ ~ConversionRaises(args, stations_list)
        /\ ~touched => args.output # <<>>
        /\ output' = IF touched
                     THEN [target |-> Target(args), args |-> args, complete |-> FALSE,
                           doc |-> <<>>]
                     ELSE output
    /\ Raise("OSError")
    /\ UNCHANGED <<cmdline, cli_key, tree, api_key, skipped, stderr, opfile, n_requests,
                   n_station_requests, failure, interrupted>>

\* Line 394-396: the user's interrupt arrives inside the try block; main exits
Interrupt ==
    /\ pc \in {"load", "operator", "await_railways", "railway", "await_stations",
               "output"}
    /\ interrupted' = pc
    /\ Raise("KeyboardInterrupt")
    /\ UNCHANGED <<cmdline, cli_key, tree, api_key, skipped, output, stderr, opfile,
                   n_requests, n_station_requests, failure>>

Next ==
    \/ ParseArgs
    \/ ResolveKey
    \/ LoadOperators
    \/ FetchRailways
    \/ RailwaysArrive
    \/ FetchStations
    \/ StationsArrive
    \/ RequestFails
    \/ NextOperator
    \/ Aggregate
    \/ ConvertFails
    \/ WriteOutput
    \/ WriteFails
    \/ Interrupt

Spec == Init /\ [][Next]_vars

\* ---------------------------------------------------- key resolution, alone
\* Every command line and every directory tree up to MaxDepth directories deep
InitKey ==
    /\ pc = "args"
    /\ cmdline = "accepted"
    /\ cli_key \in {<<>>, Key1}
    /\ tree \in UNION { [1..d -> ConfigFiles] : d \in 1..MaxDepth }
    /\ InitRest

NextKey == ResolveKey

SpecKey == InitKey /\ [][NextKey]_vars

\* ---------------------------------------------------------- serializer, alone
Absent == [t |-> "absent", v |-> <<>>]
LatValues == {Absent, JNull, JNum(<<"3", "5">>), JStr(<<"x">>), Huge}
LonValues == {Absent, JStr(<<"1", "3", "9">>), JStr(<<"x">>)}

\* The object that has aliases[i] set to values[i] wherever values[i] is a value
AliasFields(aliases, values) ==
    [k \in {aliases[i] : i \in {j \in 1..Len(aliases) : values[j] # Absent}} |->
        values[CHOOSE i \in 1..Len(aliases) : aliases[i] = k]]

\* Stations with every combination of coordinate fields
GeoStations ==
    { AliasFields(LatAliases, la) @@ AliasFields(LonAliases, lo)
        @@ ("odpt:stationTitle" :> JStr(<<"x">>)) :
        la \in [1..Len(LatAliases) -> LatValues], lo \in [1..Len(LonAliases) -> LonValues] }

\* Stations that follow the first one
GeoTail ==
    { ("geo:lat" :> JNum(<<"3", "5">>)) @@ ("geo:long" :> JNum(<<"1", "3", "9">>)),
      ("lat" :> JStr(<<"x">>)) @@ ("geo:long" :> JNum(<<"1", "3", "9">>)),
      ("odpt:railway" :> Rw9) }

StationIds == <<JStr(<<"a">>), JStr(<<"a", "b">>), JStr(<<"b">>), JStr(<<"c">>)>>

\* The state main is in when one operator, one railway and the stations
\* `response` have been fetched and aggregated
AfterFetch(response) ==
    LET railway == ("owl:sameAs" :> Rw1) @@ ("dc:title" :> JStr(<<"t">>))
        setup == CHOOSE u \in Setups : ResolvedKey(u.cli, u.tree) # <<>>
    IN  /\ pc = "output"
        /\ cmdline = "accepted"
        /\ exc = "none" /\ exit_status = -1
        /\ cli_key = setup.cli /\ tree = setup.tree
        /\ api_key = ResolvedKey(setup.cli, setup.tree)
        /\ operators = << <<"OP-A">> >> /\ op_i = 2
        /\ railways = <<railway>> /\ rw_i = 2
        /\ all_stations = BackfillAll(response, Rw1)
        /\ railway_count = 1
        /\ stations_list = UniqueSorted(BackfillAll(response, Rw1))
        /\ skipped = -1
        /\ output = NoOutput
        /\ inflight = {}
        /\ stderr = RequestLog(api_key, StationRequest(Rw1))
        /\ opfile = [state |-> "readable", count |-> 1]
        /\ rw_seen = <<railway>>
        /\ fetched = [i \in 1..Len(response) |-> [railway |-> Rw1.v, station |-> response[i]]]
        /\ n_requests = 2 /\ n_station_requests = 1
        /\ failure = "none" /\ interrupted = "no"

InitGeo ==
    \E first \in GeoStations, rest \in SeqsUpTo(GeoTail, MaxGeoTail) :
        AfterFetch([i \in 1..(1 + Len(rest)) |->
                      (IF i = 1 THEN first ELSE rest[i - 1]) @@ ("owl:sameAs" :> StationIds[i])])

NextGeo == ConvertFails \/ WriteOutput \/ WriteFails

SpecGeo == InitGeo /\ [][NextGeo]_vars

\* ------------------------------------------------------------- the properties
\* The run has aggregated its stations: it is about to write, or has written
Aggregated == pc = "output" \/ (pc = "exited" /\ output.complete)

\* A station identifier that is there and not empty
NonEmptyId(x) == x.t = "str" /\ x.v # <<>>

\* The identifiers of the stations returned over the run
FetchedIds ==
    { id \in { Get(fetched[i].station, "owl:sameAs") : i \in 1..Len(fetched) } :
        NonEmptyId(id) }

\* The place of the last station returned with identifier id
LastFetched(id) ==
    CHOOSE i \in 1..Len(fetched) :
        /\ Get(fetched[i].station, "owl:sameAs") = id
        /\ \A j \in (i + 1)..Len(fetched) : Get(fetched[j].station, "owl:sameAs") # id

\* record is the returned station `returned`, but for a railway reference it got
IsFetched(record, returned) ==
    /\ DOMAIN returned \subseteq DOMAIN record
    /\ DOMAIN record \subseteq DOMAIN returned \cup {"odpt:railway"}
    /\ \A k \in DOMAIN returned : record[k] = returned[k]

\* C1: when every request succeeded, the final station collection holds exactly
\* one record for each non-empty identifier returned, that record is the one
\* returned last under that identifier, with no field of an earlier duplicate,
\* and stations without an identifier are not in it.
C1_LastFetchedWins ==
    Aggregated =>
        /\ Len(stations_list) = Cardinality(FetchedIds)
        /\ \A j \in 1..Len(stations_list) :
            LET id == Get(stations_list[j], "owl:sameAs")
            IN  /\ id \in FetchedIds
                /\ IsFetched(stations_list[j], fetched[LastFetched(id)].station)
                /\ stations_list[j] = all_stations[LastFetched(id)]
        /\ \A id \in FetchedIds :
            Cardinality({j \in 1..Len(stations_list) :
                            Get(stations_list[j], "owl:sameAs") = id}) = 1

\* Two different records share an identifier, and the run wrote its output
C1_Witness ==
    /\ pc = "exited" /\ exit_status = 0
    /\ \E i, j \in 1..Len(fetched) :
        /\ i < j
        /\ NonEmptyId(Get(fetched[i].station, "owl:sameAs"))
        /\ Get(fetched[i].station, "owl:sameAs") = Get(fetched[j].station, "owl:sameAs")
        /\ fetched[i].station # fetched[j].station
        /\ fetched[i].railway # fetched[j].railway

\* The identifiers of a sequence of objects never decrease
NonDecreasing(ids) ==
    \A i, j \in 1..Len(ids) : i < j => ~StrLess(ids[j].v, ids[i].v)

\* The identifiers of the written document, in its order
WrittenIds ==
    IF "features" \in DOMAIN output.doc
    THEN [i \in 1..Len(output.doc.features) |->
             output.doc.features[i].properties["owl:sameAs"]]
    ELSE [i \in 1..Len(output.doc.stations) |-> Get(output.doc.stations[i], "owl:sameAs")]

\* C2: the station list handed to the serializer, and so the stations of the
\* plain JSON document and the features of the GeoJSON document, never decrease
\* by identifier under string comparison.
C2_SortedById ==
    /\ Aggregated =>
        NonDecreasing([i \in 1..Len(stations_list) |-> Get(stations_list[i], "owl:sameAs")])
    /\ output.complete => NonDecreasing(WrittenIds)

\* The stations arrived in decreasing order of identifier and were written
C2_Witness ==
    /\ output.complete
    /\ Len(WrittenIds) >= 2
    /\ \E i, j \in 1..Len(all_stations) :
        /\ i < j
        /\ StrLess(Get(all_stations[j], "owl:sameAs").v, Get(all_stations[i], "owl:sameAs").v)

\* C9: aggregation changes a returned station only by giving it the railway
\* reference it lacks: a station without the field gets the identifier of the
\* railway its request named, a station with the field keeps its value, no other
\* field is added, removed or altered, and every station of the final collection
\* has the field.
C9_OnlyBackfill ==
    /\ Len(all_stations) = Len(fetched)
    /\ \A i \in 1..Len(all_stations) :
        /\ IsFetched(all_stations[i], fetched[i].station)
        /\ "odpt:railway" \in DOMAIN all_stations[i]
        /\ "odpt:railway" \notin DOMAIN fetched[i].station
             => all_stations[i]["odpt:railway"] = JStr(fetched[i].railway)
    /\ Aggregated =>
        \A j \in 1..Len(stations_list) :
            /\ "odpt:railway" \in DOMAIN stations_list[j]
            /\ \E i \in 1..Len(all_stations) : stations_list[j] = all_stations[i]

\* One station came with a railway reference of its own, another without
C9_Witness ==
    /\ Aggregated
    /\ \E i, j \in 1..Len(fetched) :
        /\ "odpt:railway" \in DOMAIN fetched[i].station
        /\ fetched[i].station["odpt:railway"] # JStr(fetched[i].railway)
        /\ "odpt:railway" \notin DOMAIN fetched[j].station
    /\ Len(stations_list) = 2

\* The railway records returned that have an identifier
WithIdentifier ==
    {i \in 1..Len(rw_seen) : NonEmptyId(Get(rw_seen[i], "owl:sameAs"))}

\* C10: the railway count of the summary is the number of railway records
\* returned over the run, those without an identifier and the repeated ones
\* included; stations are requested only for the records that have an
\* identifier, one railways request is made per operator, and so the stations
\* requests number the records with an identifier and never exceed the count.
C10_RailwayCount ==
    (pc # "exited" \/ exit_status = 0) =>
        /\ railway_count = Len(rw_seen)
        /\ n_station_requests <= Cardinality(WithIdentifier)
        /\ n_station_requests <= railway_count
        /\ Aggregated =>
            /\ n_station_requests = Cardinality(WithIdentifier)
            /\ n_requests - n_station_requests = Len(operators)
        /\ (output.complete /\ "summary" \in DOMAIN output.doc) =>
            output.doc.summary.railways = Len(rw_seen)

\* A record without an identifier and a repeated record were counted
C10_Witness ==
    /\ output.complete /\ "summary" \in DOMAIN output.doc
    /\ Len(operators) = 2
    /\ Len(rw_seen) = 2
    /\ Cardinality(WithIdentifier) = 1
    /\ n_station_requests = 1

\* C3: for a call that ends in an HTTP error, a URL error or a timeout, nothing
\* _make_request wrote to the diagnostic stream for that call holds the access
\* key verbatim.
C3_KeyNeverLogged ==
    failure \in {"HTTPError", "URLError", "timeout"} =>
        \A i \in 1..Len(stderr) : ~Contains(stderr[i], api_key)

\* Key resolution ran and found no key
KeyUnresolved == cmdline = "accepted" /\ pc = "exited" /\ api_key = <<>>

\* The operator list was looked for and was absent or empty
OperatorsMissing == opfile.state # "unread" /\ opfile.count = 0

\* C4: without a key, without operators, or with a failed request the run ends
\* with status 1 and no output artifact; no request is sent without a key or
\* without operators; output is written only when no request failed and none
\* is in flight.
C4_FailureWritesNothing ==
    /\ (pc = "exited" /\ (KeyUnresolved \/ OperatorsMissing \/ failure # "none"))
          => (exit_status = 1 /\ output = NoOutput)
    /\ (pc = "exited" /\ (KeyUnresolved \/ OperatorsMissing)) => n_requests = 0
    /\ output # NoOutput => (pc = "exited" /\ failure = "none" /\ inflight = {})

\* A stations request failed after the railways request before it had succeeded
C4_Witness ==
    /\ pc = "exited" /\ exit_status = 1 /\ output = NoOutput
    /\ failure = "URLError"
    /\ n_station_requests >= 1

\* C5: a request is sent only when none is in flight and none has failed; once
\* a request has failed the run has ended and sends nothing more.
C5_OneAtATime ==
    /\ [](Cardinality(inflight) <= 1)
    /\ [][n_requests' # n_requests =>
            (inflight = {} /\ failure = "none" /\ n_requests' = n_requests + 1
             /\ Cardinality(inflight') = 1)]_vars
    /\ [](failure # "none" => (pc = "exited" /\ inflight = {}))
    /\ [][failure # "none" => n_requests' = n_requests]_vars

\* The third request of a run timed out
C5_Witness ==
    /\ failure = "timeout"
    /\ n_requests = 3
    /\ pc = "exited"

\* Key, operators, every request, the conversion and the write were all good
Succeeded ==
    /\ api_key # <<>>
    /\ opfile.count > 0
    /\ failure = "none"
    /\ output.complete

\* What is left of the run: the phase, the operators not yet done, the step
\* within an operator, the railways not yet done and the step within a railway
Remaining ==
    CASE pc = "parse" -> <<5, 0, 0, 0>>
      [] pc = "args" -> <<4, 0, 0, 0>>
      [] pc = "load" -> <<3, 0, 0, 0>>
      [] pc = "operator" -> <<2, Len(operators) + 1 - op_i, 2, 0>>
      [] pc = "await_railways" -> <<2, Len(operators) + 1 - op_i, 1, 0>>
      [] pc = "railway" ->
            <<2, Len(operators) + 1 - op_i, 0, 2 * (Len(railways) + 1 - rw_i) + 1>>
      [] pc = "await_stations" ->
            <<2, Len(operators) + 1 - op_i, 0, 2 * (Len(railways) + 1 - rw_i)>>
      [] pc = "output" -> <<1, 0, 0, 0>>
      [] OTHER -> <<0, 0, 0, 0>>

\* The lexicographic order of such measures
Before(m, n) ==
    \E i \in 1..4 : m[i] < n[i] /\ \A j \in 1..(i - 1) : m[j] = n[j]

\* The status the run's outcome calls for
StatusOfOutcome == IF interrupted # "no" THEN 130 ELSE IF Succeeded THEN 0 ELSE 1

\* A run ends: it can always take a step until the process has exited, every
\* step leaves less of the run than there was, and the status is set once
Terminates ==
    /\ [](pc # "exited" => (exit_status = -1 /\ ENABLED Next))
    /\ [](\A i \in 1..4 : Remaining[i] >= 0)
    /\ [][Before(Remaining', Remaining)]_vars
    /\ [][exit_status # -1 => exit_status' = exit_status]_vars

\* C6, as stated: every run ends, with one exit status: 130 when the user
\* interrupted it while operators were loaded or stations fetched, aggregated
\* or serialized, 0 exactly when key, operators, every request and the write
\* succeeded, and 1 otherwise.
C6_ExitStatus ==
    /\ Terminates
    /\ [](pc = "exited" => exit_status = StatusOfOutcome)

\* C6, as amended: every run ends, with one exit status. A run whose command
\* line the argument parser accepts ends with 130 when the user interrupted it
\* while operators were loaded or stations fetched, aggregated or serialized,
\* with 0 exactly when key, operators, every request and the write succeeded,
\* and with 1 otherwise. A run whose command line asks for the help ends with
\* 0, and one whose command line the parser rejects ends with 2, both before
\* key resolution, without a request and without output.
C6_ExitStatusOnceParsed ==
    /\ Terminates
    /\ [](pc = "exited" /\ cmdline = "accepted" => exit_status = StatusOfOutcome)
    /\ [](pc = "exited" /\ cmdline # "accepted" =>
            /\ exit_status = (IF cmdline = "help" THEN 0 ELSE 2)
            /\ api_key = <<>> /\ n_requests = 0 /\ output = NoOutput)

\* The user interrupted a stations request
C6_Witness ==
    /\ pc = "exited"
    /\ cmdline = "accepted"
    /\ interrupted = "await_stations"
    /\ exit_status = 130

\* The value under the first alias the station has, by position
FirstPresent(station, aliases) ==
    LET present == {i \in 1..Len(aliases) : aliases[i] \in DOMAIN station}
    IN  IF present = {} THEN JNull
        ELSE station[aliases[CHOOSE i \in present : \A j \in present : i <= j]]

\* x is a JSON number, or a string that spells one
IsNumber(x) ==
    \/ x.t = "num"
    \/ x.t = "str" /\ Len(x.v) > 0 /\ {x.v[i] : i \in 1..Len(x.v)} \subseteq Digits

HasCoordinates(station) ==
    /\ IsNumber(FirstPresent(station, LatAliases))
    /\ IsNumber(FirstPresent(station, LonAliases))

\* --geojson, or an output path that ends in .geojson in any case
AskedForGeoJson(a) ==
    a.geojson \/ (a.output # <<>> /\ a.output[Len(a.output)] \in {".geojson", ".GeoJSON"})

\* The serializer got through every station it was given
Classified == exc # "OverflowError"

\* C7: in GeoJSON mode the serializer makes of every unique station a feature
\* or a skipped one: a feature exactly when the values of its first latitude
\* alias and of its first longitude alias are both numbers, with coordinates
\* [longitude, latitude]; the others are counted as skipped, features and
\* skipped add up to the unique stations; in plain JSON mode every unique
\* station is in the document.
C7_FeaturesAndSkipped ==
    /\ Classified
    /\ output.complete =>
        IF AskedForGeoJson(output.args)
        THEN LET good == {i \in 1..Len(stations_list) : HasCoordinates(stations_list[i])}
                 features == output.doc.features
             IN  /\ Len(features) = Cardinality(good)
                 /\ skipped = Len(stations_list) - Cardinality(good)
                 /\ Len(features) + skipped = Len(stations_list)
                 /\ \A i \in good :
                      LET feature == features[Cardinality({k \in good : k <= i})]
                      IN  /\ feature.geometry.coordinates =
                                <<FirstPresent(stations_list[i], LonAliases).v,
                                  FirstPresent(stations_list[i], LatAliases).v>>
                          /\ feature.properties["owl:sameAs"] =
                                stations_list[i]["owl:sameAs"]
        ELSE /\ output.doc.stations = stations_list
             /\ skipped = -1

\* The directories find_config_file looks into
Searched == 1..(IF Len(tree) < MAX_PARENT_DIRS THEN Len(tree) ELSE MAX_PARENT_DIRS)

\* C8, as amended: a key on the command line is used whatever the directories
\* hold; otherwise the nearest of the at most 5 searched directories that has
\* a defaults.json decides: the key is its ODPT_API_KEY when the file parses
\* and the value is not empty, and is unresolved otherwise, as it is when none
\* of the searched directories has the file.
C8_NearestConfigDecides ==
    pc # "args" =>
        IF cli_key # <<>> THEN api_key = cli_key /\ pc = "load"
        ELSE LET found == {d \in Searched : tree[d].kind # "absent"}
                 nearest == CHOOSE d \in found : \A e \in found : d <= e
             IN  IF found # {} /\ tree[nearest].kind = "key" /\ tree[nearest].value # <<>>
                 THEN api_key = tree[nearest].value /\ pc = "load"
                 ELSE api_key = <<>> /\ pc = "exited" /\ exit_status = 1

\* A defaults.json without the key field shadows one with it in the parent
C8_Witness ==
    /\ pc = "exited" /\ exit_status = 1
    /\ cli_key = <<>>
    /\ Len(tree) >= 2
    /\ tree[1].kind = "nokey"
    /\ tree[2] = [kind |-> "key", value |-> Key1]

\* C8, as stated: without a key on the command line, the key is resolved, to
\* the field's value, whenever a searched directory has a file with the field
C8_AnyConfigDecides ==
    (pc # "args" /\ cli_key = <<>>) =>
        LET holding == {d \in Searched : tree[d].kind = "key" /\ tree[d].value # <<>>}
        IN  IF holding # {}
            THEN pc = "load" /\ \E d \in holding : api_key = tree[d].value
            ELSE pc = "exited"

====
